---- MODULE Spec2Model ----
(***************************************************************************)
(* Model of src/lib.rs: SizeAllocator, a GlobalAlloc implementation that   *)
(* forwards alloc / alloc_zeroed / realloc / dealloc to std::alloc::* and  *)
(* keeps the sum of malloc_usable_size of the blocks in the AtomicUsize    *)
(* field `size`.                                                           *)
(*                                                                         *)
(* Every thread runs one allocator method at a time.  A method is split    *)
(* into its individually atomic steps: the call into std::alloc, each      *)
(* usable-size query (a read of the heap's metadata) and each atomic       *)
(* fetch_add / fetch_sub on self.size.  Layout alignment and the contents  *)
(* of the blocks do not influence the counter and are left out; a layout   *)
(* is represented by its size.                                             *)
(***************************************************************************)
EXTENDS Integers, FiniteSets, Sequences, TLC

\* ------------------------------------------------------------------ bounds
NThreads == 2       \* number of threads
MaxAddr == 2        \* number of distinct block addresses of the heap
MaxSize == 2        \* largest requested size
MaxRound == 1       \* largest rounding the heap adds to a requested size
MaxStack == 2       \* frames of SizeAllocator code a thread's stack holds
MaxPairs == 2       \* alloc/dealloc pairs per thread in the pairs workload
WordBits == 3       \* width of usize in the model

Threads == 1..NThreads
NULL == 0
Addr == 1..MaxAddr
WordMod == 2^WordBits
Sizes == 1..MaxSize
PANIC == -1         \* result of a failed debug assertion
NoBase == -1

VARIABLES
    size,              \* SizeAllocator.size : AtomicUsize
    usable,            \* heap of the system allocator: usable[a] = 0 iff a is
                       \* free, else what malloc_usable_size(a) returns
    installed,         \* SizeAllocator is the #[global_allocator], so that
                       \* std::alloc::* dispatches to it
    debug_assertions,  \* build configuration (cfg(debug_assertions))
    th,                \* per thread: the running method's frame
    depth,             \* per thread: nested SizeAllocator frames on the stack
    crashed,           \* the process has been aborted
    owned,             \* blocks handed to the program and at rest
    base,              \* counter value at entry of an operation running alone
    pairs,             \* pairs workload: completed pairs per thread
    start,             \* counter value before the workload started
    drift,             \* usable sizes lost minus gained by resizes in place
                       \* (modulo the word), none of them counted
    moved              \* moving workload: a realloc has moved a block

vars == <<size, usable, installed, debug_assertions, th, depth, crashed,
          owned, base, pairs, start, drift, moved>>

\* --------------------------------------------------------------- helpers
RECURSIVE SumOver(_, _)
SumOver(f, S) ==
    IF S = {} THEN 0
    ELSE LET a == CHOOSE x \in S : TRUE IN f[a] + SumOver(f, S \ {a})

\* bytes the heap has handed out, by usable size
HeapBytes(u) == SumOver(u, Addr)

Live(u) == {a \in Addr : u[a] > 0}

\* AtomicUsize::fetch_add / fetch_sub: wrapping arithmetic on a machine word
fetch_add(cur, val) == (cur + val) % WordMod

fetch_sub(cur, val) == (cur - val) % WordMod

\* extern "C" malloc_usable_size: 0 for the null pointer
malloc_usable_size(p) == IF p = NULL THEN 0 ELSE usable[p]

\* mutant: the query without its debug assertion
allocating_size_unchecked(p) == malloc_usable_size(p)

\* allocating_size: debug_assert_eq!(false, ptr.is_null()), then the query
allocating_size(p) ==
    IF debug_assertions /\ p = NULL THEN PANIC ELSE malloc_usable_size(p)

\* a frame at rest
IdleFrame ==
    [pc |-> "idle", op |-> "none", ptr |-> NULL, layout |-> 0, new_size |-> 0,
     old_size |-> 0, ptr_ |-> NULL, size |-> 0,
     nupd |-> 0, delta |-> 0, dret |-> NULL, ret |-> NULL]

Idle(t) == th[t].pc = "idle"
AllIdle == \A t \in Threads : Idle(t)

\* entering a method from the program: remember the counter if nothing else
\* is running
EnterBase(t) == IF \A u \in Threads \ {t} : Idle(u) THEN size ELSE NoBase

\* ------------------------------------------------- the system allocator
\* What malloc / calloc may answer to a request of `layout` bytes: null, or a
\* free address whose usable size is the request rounded up.  The heap never
\* holds more bytes than the address space has.
SystemAlloc(layout) ==
    {<<NULL, 0>>} \cup
    {<<a, u>> \in Addr \X (1..(MaxSize + MaxRound)) :
        /\ usable[a] = 0
        /\ u >= layout /\ u <= layout + MaxRound
        /\ HeapBytes(usable) + u < WordMod}

\* What realloc(ptr, new_size) may answer: null (the block is untouched), the
\* same address (resized in place) or another address (moved, the old block
\* freed).  The third component is the heap afterwards.
SystemRealloc(ptr, new_size) ==
    {<<NULL, usable>>} \cup
    {<<ptr, [usable EXCEPT ![ptr] = u]>> :
        u \in {v \in new_size..(new_size + MaxRound) :
                 HeapBytes(usable) - usable[ptr] + v < WordMod}} \cup
    {<<a, [usable EXCEPT ![ptr] = 0, ![a] = u]>> :
        <<a, u>> \in {<<b, v>> \in Addr \X (1..(MaxSize + MaxRound)) :
                        /\ usable[b] = 0
                        /\ v >= new_size /\ v <= new_size + MaxRound
                        /\ HeapBytes(usable) + v < WordMod}}

\* ------------------------------------------------------------ frame steps
Goto(t, f) == th' = [th EXCEPT ![t] = f]

\* mutant: the method returns its pointer argument instead of the delegate's
Return_argument(f, value) == [f EXCEPT !.ret = f.ptr, !.pc = "returned"]

\* the method returns `value` to the program
Return(f, value) == [f EXCEPT !.ret = value, !.pc = "returned"]

\* a method entered from the program
Enter(t, f) ==
    /\ ~crashed
    /\ Idle(t)
    /\ Goto(t, f)
    /\ depth' = [depth EXCEPT ![t] = 1]
    /\ base' = EnterBase(t)

\* ----------------------------------------------------------------- alloc
\* the program calls GlobalAlloc::alloc(layout)
call_alloc(t, layout) ==
    /\ Enter(t, [IdleFrame EXCEPT !.pc = "alloc_call", !.op = "alloc",
                                  !.layout = layout])
    /\ UNCHANGED <<size, usable, installed, debug_assertions, crashed, owned,
                   pairs, start, drift, moved>>

\* mutant: the result of the delegate is not tested for null
AllocCall_no_null_check(t, here, query) ==
    /\ ~crashed
    /\ th[t].pc = here
    /\ ~installed
    /\ \E o \in SystemAlloc(th[t].layout) :
          /\ usable' = IF o[1] = NULL THEN usable
                       ELSE [usable EXCEPT ![o[1]] = o[2]]
          /\ Goto(t, [th[t] EXCEPT !.ptr = o[1], !.dret = o[1], !.pc = query])
    /\ UNCHANGED <<size, installed, debug_assertions, depth, crashed, owned,
                   base, pairs, start, drift, moved>>

\* let ptr = std::alloc::alloc(layout);  if !ptr.is_null() { ... }
AllocCall(t, here, query) ==
    /\ ~crashed
    /\ th[t].pc = here
    /\ ~installed
    /\ \E o \in SystemAlloc(th[t].layout) :
          /\ usable' = IF o[1] = NULL THEN usable
                       ELSE [usable EXCEPT ![o[1]] = o[2]]
          /\ Goto(t, IF o[1] # NULL
                      THEN [th[t] EXCEPT !.ptr = o[1], !.dret = o[1],
                                         !.pc = query]
                      ELSE Return([th[t] EXCEPT !.ptr = o[1], !.dret = o[1]],
                                  o[1]))
    /\ UNCHANGED <<size, installed, debug_assertions, depth, crashed, owned,
                   base, pairs, start, drift, moved>>

alloc_call(t) == AllocCall(t, "alloc_call", "alloc_query")

\* mutant: counts the requested size instead of the usable size
AllocQuery_requested(t, here, update) ==
    /\ ~crashed
    /\ th[t].pc = here
    /\ Goto(t, [th[t] EXCEPT !.size = th[t].layout, !.pc = update])
    /\ UNCHANGED <<size, usable, installed, debug_assertions, depth, crashed,
                   owned, base, pairs, start, drift, moved>>

\* let size = allocating_size(ptr);
AllocQuery(t, here, update) ==
    /\ ~crashed
    /\ th[t].pc = here
    /\ LET s == allocating_size(th[t].ptr) IN
          Goto(t, IF s = PANIC THEN [th[t] EXCEPT !.pc = "panic"]
                  ELSE [th[t] EXCEPT !.size = s, !.pc = update])
    /\ UNCHANGED <<size, usable, installed, debug_assertions, depth, crashed,
                   owned, base, pairs, start, drift, moved>>

alloc_query(t) == AllocQuery(t, "alloc_query", "alloc_update")

\* mutant: the counter is updated twice
AllocUpdate_twice(t, here) ==
    /\ ~crashed
    /\ th[t].pc = here
    /\ size' = fetch_add(fetch_add(size, th[t].size), th[t].size)
    /\ Goto(t, Return([th[t] EXCEPT !.nupd = @ + 2,
                                    !.delta = @ + 2 * th[t].size], th[t].ptr))
    /\ UNCHANGED <<usable, installed, debug_assertions, depth, crashed, owned,
                   base, pairs, start, drift, moved>>

\* self.size.fetch_add(size, Ordering::Acquire);  ptr
AllocUpdate(t, here) ==
    /\ ~crashed
    /\ th[t].pc = here
    /\ size' = fetch_add(size, th[t].size)
    /\ Goto(t, Return([th[t] EXCEPT !.nupd = @ + 1,
                                    !.delta = @ + th[t].size], th[t].ptr))
    /\ UNCHANGED <<usable, installed, debug_assertions, depth, crashed, owned,
                   base, pairs, start, drift, moved>>

alloc_update(t) == AllocUpdate(t, "alloc_update")

\* ---------------------------------------------------------- alloc_zeroed
call_alloc_zeroed(t, layout) ==
    /\ Enter(t, [IdleFrame EXCEPT !.pc = "alloc_zeroed_call",
                                  !.op = "alloc_zeroed", !.layout = layout])
    /\ UNCHANGED <<size, usable, installed, debug_assertions, crashed, owned,
                   pairs, start, drift, moved>>

\* let ptr = std::alloc::alloc_zeroed(layout);
alloc_zeroed_call(t) ==
    AllocCall(t, "alloc_zeroed_call", "alloc_zeroed_query")

alloc_zeroed_query(t) ==
    AllocQuery(t, "alloc_zeroed_query", "alloc_zeroed_update")

alloc_zeroed_update(t) == AllocUpdate(t, "alloc_zeroed_update")

\* --------------------------------------------------------------- realloc
\* the program calls GlobalAlloc::realloc(ptr, layout, new_size) on a block
\* it holds; nothing else touches the block while the call runs
call_realloc(t, ptr, new_size) ==
    /\ ptr \in owned
    /\ Enter(t, [IdleFrame EXCEPT !.pc = "realloc_old", !.op = "realloc",
                                  !.ptr = ptr, !.new_size = new_size])
    /\ owned' = owned \ {ptr}
    /\ UNCHANGED <<size, usable, installed, debug_assertions, crashed, pairs,
                   start, drift, moved>>

\* let old_size = allocating_size(ptr);
realloc_old(t) ==
    /\ ~crashed
    /\ th[t].pc = "realloc_old"
    /\ LET s == allocating_size(th[t].ptr) IN
          Goto(t, IF s = PANIC THEN [th[t] EXCEPT !.pc = "panic"]
                  ELSE [th[t] EXCEPT !.old_size = s, !.pc = "realloc_call"])
    /\ UNCHANGED <<size, usable, installed, debug_assertions, depth, crashed,
                   owned, base, pairs, start, drift, moved>>

\* mutant: the null check is missing
realloc_adjusts_no_null_check(ptr, ptr_) == ptr_ # ptr

\* mutant: adjusts after every successful realloc
realloc_adjusts_on_success(ptr, ptr_) == ptr_ # NULL

\* if (ptr_ != ptr) && !ptr_.is_null()
realloc_adjusts(ptr, ptr_) == (ptr_ # ptr) /\ (ptr_ # NULL)

\* let ptr_ = std::alloc::realloc(ptr, layout, new_size);
\* `outcomes` is what the system allocator may answer
ReallocCall(t, outcomes) ==
    /\ ~crashed
    /\ th[t].pc = "realloc_call"
    /\ ~installed
    /\ \E o \in outcomes :
          /\ usable' = o[2]
          /\ drift' = IF o[1] = th[t].ptr
                      THEN (drift + usable[th[t].ptr] - o[2][th[t].ptr])
                              % WordMod
                      ELSE drift
          /\ Goto(t, IF realloc_adjusts(th[t].ptr, o[1])
                      THEN [th[t] EXCEPT !.ptr_ = o[1], !.dret = o[1],
                                         !.pc = "realloc_new"]
                      ELSE Return([th[t] EXCEPT !.ptr_ = o[1], !.dret = o[1]],
                                  o[1]))
    /\ UNCHANGED <<size, installed, debug_assertions, depth, crashed, owned,
                   base, pairs, start>>

realloc_call(t) ==
    /\ ReallocCall(t, SystemRealloc(th[t].ptr, th[t].new_size))
    /\ UNCHANGED moved

\* let new_size = allocating_size(ptr_);   (shadows the parameter)
realloc_new(t) ==
    /\ ~crashed
    /\ th[t].pc = "realloc_new"
    /\ LET s == allocating_size(th[t].ptr_) IN
          Goto(t, IF s = PANIC THEN [th[t] EXCEPT !.pc = "panic"]
                  ELSE [th[t] EXCEPT !.new_size = s, !.pc = "realloc_update"])
    /\ UNCHANGED <<size, usable, installed, debug_assertions, depth, crashed,
                   owned, base, pairs, start, drift, moved>>

\* mutant: a moved block that got smaller is not taken off the counter
realloc_counter_ignores_shrink(cur, old_size, new_size) ==
    IF old_size < new_size THEN fetch_add(cur, new_size - old_size)
    ELSE cur

\* mutant: adds the new size without taking the old one off
realloc_counter_add_new(cur, old_size, new_size) ==
    IF old_size < new_size THEN fetch_add(cur, new_size)
    ELSE fetch_sub(cur, old_size - new_size)

\* if old_size < new_size { fetch_add(new_size - old_size) }
\* else { fetch_sub(old_size - new_size) }
realloc_counter(cur, old_size, new_size) ==
    IF old_size < new_size THEN fetch_add(cur, new_size - old_size)
    ELSE fetch_sub(cur, old_size - new_size)

realloc_update(t) ==
    /\ ~crashed
    /\ th[t].pc = "realloc_update"
    /\ size' = realloc_counter(size, th[t].old_size, th[t].new_size)
    /\ Goto(t, Return([th[t] EXCEPT
                           !.nupd = @ + 1,
                           !.delta = @ + th[t].new_size - th[t].old_size],
                       th[t].ptr_))
    /\ UNCHANGED <<usable, installed, debug_assertions, depth, crashed, owned,
                   base, pairs, start, drift, moved>>

\* --------------------------------------------------------------- dealloc
\* the program calls GlobalAlloc::dealloc(ptr, layout) on a block it holds
call_dealloc(t, ptr) ==
    /\ ptr \in owned
    /\ Enter(t, [IdleFrame EXCEPT !.pc = "dealloc_query", !.op = "dealloc",
                                  !.ptr = ptr])
    /\ owned' = owned \ {ptr}
    /\ UNCHANGED <<size, usable, installed, debug_assertions, crashed, pairs,
                   start, drift, moved>>

\* mutant: the block is handed back to the system allocator right after the
\* query, before the counter is updated
dealloc_query_frees_first(t) ==
    /\ ~crashed
    /\ th[t].pc = "dealloc_query"
    /\ ~installed
    /\ usable' = [usable EXCEPT ![th[t].ptr] = 0]
    /\ Goto(t, [th[t] EXCEPT !.size = usable[th[t].ptr],
                             !.pc = "dealloc_update"])
    /\ UNCHANGED <<size, installed, debug_assertions, depth, crashed, owned,
                   base, pairs, start, drift, moved>>

\* debug_assert!(!ptr.is_null());  let size = allocating_size(ptr);
dealloc_query(t) ==
    /\ ~crashed
    /\ th[t].pc = "dealloc_query"
    /\ LET s == allocating_size(th[t].ptr) IN
          Goto(t, IF s = PANIC THEN [th[t] EXCEPT !.pc = "panic"]
                  ELSE [th[t] EXCEPT !.size = s, !.pc = "dealloc_update"])
    /\ UNCHANGED <<size, usable, installed, debug_assertions, depth, crashed,
                   owned, base, pairs, start, drift, moved>>

\* mutant: adds where it should subtract
dealloc_update_adds(t) ==
    /\ ~crashed
    /\ th[t].pc = "dealloc_update"
    /\ size' = fetch_add(size, th[t].size)
    /\ Goto(t, [th[t] EXCEPT !.nupd = @ + 1, !.delta = @ + th[t].size,
                             !.pc = "dealloc_call"])
    /\ UNCHANGED <<usable, installed, debug_assertions, depth, crashed, owned,
                   base, pairs, start, drift, moved>>

\* mutant: dealloc leaves the counter alone
dealloc_update_no_sub(t) ==
    /\ ~crashed
    /\ th[t].pc = "dealloc_update"
    /\ Goto(t, [th[t] EXCEPT !.pc = "dealloc_call"])
    /\ UNCHANGED <<size, usable, installed, debug_assertions, depth, crashed,
                   owned, base, pairs, start, drift, moved>>

\* self.size.fetch_sub(size, Ordering::Release);
dealloc_update(t) ==
    /\ ~crashed
    /\ th[t].pc = "dealloc_update"
    /\ size' = fetch_sub(size, th[t].size)
    /\ Goto(t, [th[t] EXCEPT !.nupd = @ + 1, !.delta = @ - th[t].size,
                             !.pc = "dealloc_call"])
    /\ UNCHANGED <<usable, installed, debug_assertions, depth, crashed, owned,
                   base, pairs, start, drift, moved>>

\* std::alloc::dealloc(ptr, layout);
dealloc_call(t) ==
    /\ ~crashed
    /\ th[t].pc = "dealloc_call"
    /\ ~installed
    /\ usable' = [usable EXCEPT ![th[t].ptr] = 0]
    /\ Goto(t, Return(th[t], NULL))
    /\ UNCHANGED <<size, installed, debug_assertions, depth, crashed, owned,
                   base, pairs, start, drift, moved>>

\* ---------------------------------------- std::alloc as global allocator
\* std::alloc::alloc / alloc_zeroed / realloc / dealloc call the registered
\* #[global_allocator].  When that is the SizeAllocator itself, the call
\* enters the same method again with the same arguments, in a new frame.
CallSites == {"alloc_call", "alloc_zeroed_call", "realloc_call", "dealloc_call"}

MethodEntry(pc) ==
    CASE pc = "alloc_call" -> "alloc_call"
      [] pc = "alloc_zeroed_call" -> "alloc_zeroed_call"
      [] pc = "realloc_call" -> "realloc_old"
      [] pc = "dealloc_call" -> "dealloc_query"

std_alloc_reenter(t) ==
    /\ ~crashed
    /\ th[t].pc \in CallSites
    /\ installed
    /\ depth[t] < MaxStack
    /\ depth' = [depth EXCEPT ![t] = @ + 1]
    /\ Goto(t, [th[t] EXCEPT !.pc = MethodEntry(th[t].pc), !.old_size = 0,
                             !.size = 0])
    /\ UNCHANGED <<size, usable, installed, debug_assertions, crashed, owned,
                   base, pairs, start, drift, moved>>

\* the recursion has used up the stack: the process is killed
stack_overflow(t) ==
    /\ ~crashed
    /\ th[t].pc \in CallSites
    /\ installed
    /\ depth[t] >= MaxStack
    /\ crashed' = TRUE
    /\ UNCHANGED <<size, usable, installed, debug_assertions, th, depth,
                   owned, base, pairs, start, drift, moved>>

\* ------------------------------------------------------------ the program
\* what the program holds after a method has returned
Held(f) ==
    CASE f.op \in {"alloc", "alloc_zeroed"} -> {f.ret} \ {NULL}
      [] f.op = "realloc" -> IF f.ret = NULL THEN {f.ptr} ELSE {f.ret}
      [] OTHER -> {}

program_resume(t) ==
    /\ ~crashed
    /\ th[t].pc = "returned"
    /\ owned' = owned \cup Held(th[t])
    /\ Goto(t, IdleFrame)
    /\ depth' = [depth EXCEPT ![t] = 0]
    /\ base' = NoBase
    /\ UNCHANGED <<size, usable, installed, debug_assertions, crashed, pairs,
                   start, drift, moved>>

TypeOK ==
    /\ size \in 0..(WordMod - 1)
    /\ usable \in [Addr -> 0..(MaxSize + MaxRound)]
    /\ installed \in BOOLEAN /\ debug_assertions \in BOOLEAN
    /\ crashed \in BOOLEAN
    /\ owned \subseteq Addr
    /\ depth \in [Threads -> 0..MaxStack]
    /\ pairs \in [Threads -> 0..MaxPairs]
    /\ drift \in 0..(WordMod - 1)
    /\ moved \in BOOLEAN

Init ==
    /\ size = 0
    /\ usable = [a \in Addr |-> 0]
    /\ installed \in BOOLEAN
    /\ debug_assertions \in BOOLEAN
    /\ th = [t \in Threads |-> IdleFrame]
    /\ depth = [t \in Threads |-> 0]
    /\ crashed = FALSE
    /\ owned = {}
    /\ base = NoBase
    /\ pairs = [t \in Threads |-> 0]
    /\ start = 0
    /\ drift = 0
    /\ moved = FALSE

Next ==
    \E t \in Threads :
        \/ \E l \in Sizes : call_alloc(t, l)
        \/ alloc_call(t)
        \/ alloc_query(t)
        \/ alloc_update(t)
        \/ \E l \in Sizes : call_alloc_zeroed(t, l)
        \/ alloc_zeroed_call(t)
        \/ alloc_zeroed_query(t)
        \/ alloc_zeroed_update(t)
        \/ \E p \in Addr, n \in Sizes : call_realloc(t, p, n)
        \/ realloc_old(t)
        \/ realloc_call(t)
        \/ realloc_new(t)
        \/ realloc_update(t)
        \/ \E p \in Addr : call_dealloc(t, p)
        \/ dealloc_query(t)
        \/ dealloc_update(t)
        \/ dealloc_call(t)
        \/ std_alloc_reenter(t)
        \/ stack_overflow(t)
        \/ program_resume(t)

Spec == Init /\ [][Next]_vars

\* ------------------------------------------------- the pairs workload
\* Every thread repeats: alloc or alloc_zeroed of some size, then dealloc of
\* the pointer it got.  Blocks allocated before the threads started stay
\* where they are.
pair_alloc(t, layout) ==
    /\ pairs[t] < MaxPairs
    /\ call_alloc(t, layout)

pair_alloc_zeroed(t, layout) ==
    /\ pairs[t] < MaxPairs
    /\ call_alloc_zeroed(t, layout)

pair_dealloc(t) ==
    /\ ~crashed
    /\ th[t].pc = "returned"
    /\ th[t].op \in {"alloc", "alloc_zeroed"}
    /\ th[t].ret # NULL
    /\ Goto(t, [IdleFrame EXCEPT !.pc = "dealloc_query", !.op = "dealloc",
                                 !.ptr = th[t].ret])
    /\ base' = EnterBase(t)
    /\ UNCHANGED <<size, usable, installed, debug_assertions, depth, crashed,
                   owned, pairs, start, drift, moved>>

\* the allocation failed: no pair
pair_failed(t) ==
    /\ ~crashed
    /\ th[t].pc = "returned"
    /\ th[t].op \in {"alloc", "alloc_zeroed"}
    /\ th[t].ret = NULL
    /\ Goto(t, IdleFrame)
    /\ depth' = [depth EXCEPT ![t] = 0]
    /\ base' = NoBase
    /\ UNCHANGED <<size, usable, installed, debug_assertions, crashed, owned,
                   pairs, start, drift, moved>>

pair_done(t) ==
    /\ ~crashed
    /\ th[t].pc = "returned"
    /\ th[t].op = "dealloc"
    /\ Goto(t, IdleFrame)
    /\ depth' = [depth EXCEPT ![t] = 0]
    /\ base' = NoBase
    /\ pairs' = [pairs EXCEPT ![t] = @ + 1]
    /\ UNCHANGED <<size, usable, installed, debug_assertions, crashed, owned,
                   start, drift, moved>>

\* The threads start in a process that may hold blocks already, all of them
\* counted (none can exist when every allocation re-enters the allocator).
InitPairs ==
    /\ usable \in [Addr -> 0..(MaxSize + MaxRound)]
    /\ HeapBytes(usable) < WordMod
    /\ installed \in BOOLEAN
    /\ installed => usable = [a \in Addr |-> 0]
    /\ size = HeapBytes(usable)
    /\ start = size
    /\ owned = Live(usable)
    /\ debug_assertions \in BOOLEAN
    /\ th = [t \in Threads |-> IdleFrame]
    /\ depth = [t \in Threads |-> 0]
    /\ crashed = FALSE
    /\ base = NoBase
    /\ pairs = [t \in Threads |-> 0]
    /\ drift = 0
    /\ moved = FALSE

NextPairs ==
    \E t \in Threads :
        \/ \E l \in Sizes : pair_alloc(t, l)
        \/ alloc_call(t)
        \/ alloc_query(t)
        \/ alloc_update(t)
        \/ \E l \in Sizes : pair_alloc_zeroed(t, l)
        \/ alloc_zeroed_call(t)
        \/ alloc_zeroed_query(t)
        \/ alloc_zeroed_update(t)
        \/ pair_dealloc(t)
        \/ dealloc_query(t)
        \/ dealloc_update(t)
        \/ dealloc_call(t)
        \/ pair_failed(t)
        \/ pair_done(t)
        \/ std_alloc_reenter(t)
        \/ stack_overflow(t)

SpecPairs == InitPairs /\ [][NextPairs]_vars

\* ------------------------------------------------- the moving workload
\* The system allocator never changes the usable size of a block it leaves
\* where it is: a successful realloc moves the block or keeps its usable size.
SteadyRealloc(ptr, new_size) ==
    {o \in SystemRealloc(ptr, new_size) :
        o[1] = ptr => o[2][ptr] = usable[ptr]}

realloc_call_steady(t) ==
    /\ ReallocCall(t, SteadyRealloc(th[t].ptr, th[t].new_size))
    /\ moved' = (moved \/ th'[t].dret \notin {NULL, th[t].ptr})

NextMoves ==
    \E t \in Threads :
        \/ \E l \in Sizes : call_alloc(t, l)
        \/ alloc_call(t)
        \/ alloc_query(t)
        \/ alloc_update(t)
        \/ \E l \in Sizes : call_alloc_zeroed(t, l)
        \/ alloc_zeroed_call(t)
        \/ alloc_zeroed_query(t)
        \/ alloc_zeroed_update(t)
        \/ \E p \in Addr, n \in Sizes : call_realloc(t, p, n)
        \/ realloc_old(t)
        \/ realloc_call_steady(t)
        \/ realloc_new(t)
        \/ realloc_update(t)
        \/ \E p \in Addr : call_dealloc(t, p)
        \/ dealloc_query(t)
        \/ dealloc_update(t)
        \/ dealloc_call(t)
        \/ std_alloc_reenter(t)
        \/ stack_overflow(t)
        \/ program_resume(t)

SpecMoves == Init /\ [][NextMoves]_vars

\* ---------------------------------------------------------- scheduling
\* a step of the method thread t is running (not a step of the program)
MethodStep(t) ==
    \/ alloc_call(t) \/ alloc_query(t) \/ alloc_update(t)
    \/ alloc_zeroed_call(t) \/ alloc_zeroed_query(t) \/ alloc_zeroed_update(t)
    \/ realloc_old(t) \/ realloc_call(t) \/ realloc_new(t) \/ realloc_update(t)
    \/ dealloc_query(t) \/ dealloc_update(t) \/ dealloc_call(t)
    \/ std_alloc_reenter(t) \/ stack_overflow(t)

\* a thread inside a method keeps running: the methods take no lock and wait
\* for nothing
FairSpec == Spec /\ \A t \in Threads : WF_vars(MethodStep(t))

InFlight(t) == th[t].pc \notin {"idle", "returned"}

\* ================================================================ claims
Returned(t) == th[t].pc = "returned"
IsAlloc(t) == th[t].op \in {"alloc", "alloc_zeroed"}

\* C1: pairs workload: whenever every thread is between pairs (in particular
\* once all threads have finished), the counter has the value it had before
\* the threads started.
C1_PairsConservation == AllIdle => size = start

C1_Witness ==
    /\ AllIdle
    /\ \A t \in Threads : pairs[t] = MaxPairs
    /\ start > 0

\* C2: with no operation in flight, the counter equals the sum of the usable
\* sizes of the blocks allocated and not yet deallocated.
C2_CounterEqualsLiveUsage == AllIdle => size = SumOver(usable, owned)

\* what the next counter update of thread t subtracts, if it subtracts
SubAmount(t) ==
    CASE th[t].pc = "dealloc_update" -> th[t].size
      [] th[t].pc = "realloc_update" /\ th[t].old_size >= th[t].new_size ->
            th[t].old_size - th[t].new_size
      [] OTHER -> 0

\* C3: no counter update subtracts more than the counter holds: the running
\* total of adds minus subtracts never goes below zero and the word never
\* wraps.
C3_NonNegative ==
    [][\A t \in Threads : (th'[t] # th[t]) => SubAmount(t) <= size]_vars

\* C4: when the delegate returns null, the method returns null and has made
\* no counter update (alone: the counter is what it was at entry); after a
\* failed realloc the block is live with the usable size it had, and the
\* program still holds it.
C4_FailurePropagation ==
    \A t \in Threads :
        (Returned(t) /\ th[t].op \in {"alloc", "alloc_zeroed", "realloc"}
                     /\ th[t].dret = NULL) =>
            /\ th[t].ret = NULL
            /\ th[t].nupd = 0 /\ th[t].delta = 0
            /\ (base # NoBase => size = base)
            /\ th[t].op = "realloc" =>
                  /\ usable[th[t].ptr] > 0
                  /\ usable[th[t].ptr] = th[t].old_size
                  /\ th[t].ptr \in Held(th[t])

C4_Witness ==
    \E t \in Threads :
        /\ Returned(t) /\ th[t].op = "realloc" /\ th[t].dret = NULL
        /\ base # NoBase /\ size > 0

\* C5: a successful alloc / alloc_zeroed makes exactly one counter update, of
\* the usable size of the returned block, which is at least the requested
\* size; alone, the counter is its value at entry plus that usable size.
C5_AllocDelta ==
    \A t \in Threads :
        (Returned(t) /\ IsAlloc(t) /\ th[t].ret # NULL) =>
            /\ th[t].nupd = 1
            /\ th[t].delta = usable[th[t].ret]
            /\ usable[th[t].ret] >= th[t].layout
            /\ (base # NoBase =>
                  size = (base + usable[th[t].ret]) % WordMod)

C5_Witness ==
    \E t \in Threads :
        /\ Returned(t) /\ th[t].op = "alloc" /\ th[t].ret # NULL
        /\ usable[th[t].ret] > th[t].layout /\ base # NoBase

\* C6: dealloc makes exactly one counter update, which subtracts the usable
\* size the block has when it is freed; alone, the counter is its value at
\* entry minus that usable size.
C6_DeallocDelta ==
    \A t \in Threads :
        /\ th[t].pc = "dealloc_call" =>
              /\ th[t].nupd = 1
              /\ usable[th[t].ptr] > 0
              /\ th[t].delta = - usable[th[t].ptr]
              /\ (base # NoBase =>
                    size = (base - usable[th[t].ptr]) % WordMod)
        /\ (Returned(t) /\ th[t].op = "dealloc") =>
              /\ th[t].nupd = 1
              /\ th[t].delta = - th[t].size
              /\ (base # NoBase => size = (base - th[t].size) % WordMod)

C6_Witness ==
    \E t \in Threads :
        /\ Returned(t) /\ th[t].op = "dealloc" /\ base # NoBase
        /\ th[t].size > 1

\* C7: a realloc that moved the block changes the counter by the usable size
\* of the new block minus the usable size the old block had before the call.
C7_ReallocMoved ==
    \A t \in Threads :
        /\ th[t].pc = "realloc_call" => th[t].old_size = usable[th[t].ptr]
        /\ (Returned(t) /\ th[t].op = "realloc" /\ th[t].dret # NULL
                        /\ th[t].dret # th[t].ptr) =>
              /\ th[t].nupd = 1
              /\ th[t].delta = usable[th[t].ret] - th[t].old_size
              /\ (base # NoBase =>
                    size = (base + usable[th[t].ret] - th[t].old_size)
                              % WordMod)

C7_WitnessGrow ==
    \E t \in Threads :
        /\ Returned(t) /\ th[t].op = "realloc" /\ th[t].dret # NULL
        /\ th[t].dret # th[t].ptr /\ base # NoBase
        /\ usable[th[t].ret] > th[t].old_size

\* C8: a realloc that returned its argument makes no counter update, whatever
\* became of the block's usable size.
C8_ReallocInPlace ==
    \A t \in Threads :
        (Returned(t) /\ th[t].op = "realloc" /\ th[t].dret = th[t].ptr) =>
            /\ th[t].nupd = 0
            /\ (base # NoBase => size = base)

C8_Witness ==
    \E t \in Threads :
        /\ Returned(t) /\ th[t].op = "realloc" /\ th[t].dret = th[t].ptr
        /\ usable[th[t].ptr] # th[t].old_size /\ base # NoBase

\* C9: alloc, alloc_zeroed and realloc return the pointer the delegate
\* returned, and the blocks the program holds are the blocks the delegate has
\* live.
C9_PointerTransparency ==
    /\ \A t \in Threads :
          (Returned(t) /\ th[t].op \in {"alloc", "alloc_zeroed", "realloc"})
              => th[t].ret = th[t].dret
    /\ AllIdle => owned = Live(usable)

C9_Witness ==
    /\ \E t \in Threads :
          /\ Returned(t) /\ th[t].op = "realloc"
          /\ th[t].ret \notin {NULL, th[t].ptr}
    /\ \E t \in Threads :
          Returned(t) /\ th[t].op = "alloc_zeroed" /\ th[t].ret # NULL

\* C10: every invocation of alloc, alloc_zeroed, realloc or dealloc returns,
\* also when the SizeAllocator is the global allocator.
C10_Termination ==
    \A t \in Threads : InFlight(t) ~> (th[t].pc = "returned")

\* C11: when every successful realloc moves the block or leaves its usable
\* size as it was, no counter update is lost: once every block has been
\* freed and nothing is in flight, the counter is back at its starting value.
C11_MovingConservation == (AllIdle /\ owned = {}) => size = start

C11_Witness == AllIdle /\ owned = {} /\ Live(usable) = {} /\ moved

\* the step in which the dealloc of thread t hands its block back to the
\* system allocator (nobody else can free the block while the dealloc runs)
DeallocFrees(t) ==
    /\ th[t].op = "dealloc"
    /\ InFlight(t)
    /\ usable[th[t].ptr] > 0
    /\ usable'[th[t].ptr] = 0

\* C12: within a dealloc the usable-size query and the subtraction come
\* before the delegate's deallocate: whenever a dealloc frees its block, it
\* has already subtracted that block's usable size from the counter.
C12_DeallocOrdering ==
    [][\A t \in Threads :
          DeallocFrees(t) =>
              /\ th[t].pc = "dealloc_call"
              /\ th[t].nupd = 1
              /\ th[t].size = usable[th[t].ptr]
              /\ th[t].delta = - usable[th[t].ptr]]_vars

C12_Witness ==
    \E t \in Threads :
        /\ Returned(t) /\ th[t].op = "dealloc"
        /\ usable[th[t].ptr] = 0 /\ th[t].nupd = 1 /\ th[t].size > 0

\* the pointer the next step of thread t passes to allocating_size, if that
\* step is a usable-size query
Queried(t) ==
    CASE th[t].pc \in {"alloc_query", "alloc_zeroed_query", "realloc_old",
                       "dealloc_query"} -> {th[t].ptr}
      [] th[t].pc = "realloc_new" -> {th[t].ptr_}
      [] OTHER -> {}

\* C13: allocating_size is only ever called on a non-null pointer to a block
\* that is live at that moment (so no debug assertion fails); in realloc the
\* old block is queried before the delegate call only, and the block queried
\* after it is the non-null, different pointer the delegate returned.
C13_QueryOnLiveBlocks ==
    \A t \in Threads :
        /\ \A p \in Queried(t) : p # NULL /\ usable[p] > 0
        /\ th[t].pc # "panic"
        /\ th[t].pc = "realloc_new" =>
              /\ th[t].ptr_ = th[t].dret
              /\ th[t].ptr_ # th[t].ptr
        /\ (th[t].op = "realloc" /\ th[t].pc \in {"realloc_call", "returned"})
              => Queried(t) = {}

C13_Witness ==
    \E t \in Threads :
        /\ th[t].pc = "realloc_new"
        /\ usable[th[t].ptr] = 0
        /\ usable[th[t].ptr_] > 0

\* ------------------------------------------------ allocating_size alone
\* The public function allocating_size called directly, on a null pointer or
\* on a live block, in a debug or a release build.
QueryFrame(p) ==
    [IdleFrame EXCEPT !.pc = "query", !.op = "allocating_size", !.ptr = p]

\* pub unsafe fn allocating_size<T>(ptr: *const T) -> usize
allocating_size_call(t) ==
    /\ th[t].pc = "query"
    /\ LET s == allocating_size(th[t].ptr) IN
          Goto(t, IF s = PANIC THEN [th[t] EXCEPT !.pc = "panic"]
                  ELSE [th[t] EXCEPT !.size = s, !.pc = "returned"])
    /\ UNCHANGED <<size, usable, installed, debug_assertions, depth, crashed,
                   owned, base, pairs, start, drift, moved>>

InitQuery ==
    /\ size = 0
    /\ usable \in [Addr -> 0..MaxSize]
    /\ installed = FALSE
    /\ debug_assertions \in BOOLEAN
    /\ th \in [Threads -> {QueryFrame(p) : p \in {NULL} \cup Live(usable)}]
    /\ depth = [t \in Threads |-> 0]
    /\ crashed = FALSE
    /\ owned = Live(usable)
    /\ base = NoBase
    /\ pairs = [t \in Threads |-> 0]
    /\ start = 0
    /\ drift = 0
    /\ moved = FALSE

NextQuery == \E t \in Threads : allocating_size_call(t)

SpecQuery == InitQuery /\ [][NextQuery]_vars

NullQuery(t) == th[t].op = "allocating_size" /\ th[t].ptr = NULL

\* C14 as stated: allocating_size given a null pointer returns 0 as a value,
\* without failing an assertion, whatever the build configuration.
C14_NullReturnsZeroEveryBuild ==
    \A t \in Threads :
        NullQuery(t) =>
            \/ th[t].pc = "query"
            \/ th[t].pc = "returned" /\ th[t].size = 0

\* C14 amended: allocating_size given a null pointer returns 0 when debug
\* assertions are compiled out, and fails its debug assertion (panics)
\* when they are compiled in.
C14_NullReturnsZeroInRelease ==
    \A t \in Threads :
        NullQuery(t) =>
            \/ th[t].pc = "query"
            \/ /\ ~debug_assertions
               /\ th[t].pc = "returned"
               /\ th[t].size = 0
            \/ /\ debug_assertions
               /\ th[t].pc = "panic"

C14_Witness ==
    /\ ~debug_assertions
    /\ \E t \in Threads :
          /\ NullQuery(t)
          /\ th[t].pc = "returned"
          /\ th[t].size = 0
    /\ \E u \in Threads :
          /\ th[u].op = "allocating_size"
          /\ th[u].pc = "returned"
          /\ th[u].size > 0

\* --------------------------------------------- programs without realloc
\* Any interleaving of alloc, alloc_zeroed and dealloc, from the state after
\* construction.
NextAllocDealloc ==
    \E t \in Threads :
        \/ \E l \in Sizes : call_alloc(t, l)
        \/ alloc_call(t)
        \/ alloc_query(t)
        \/ alloc_update(t)
        \/ \E l \in Sizes : call_alloc_zeroed(t, l)
        \/ alloc_zeroed_call(t)
        \/ alloc_zeroed_query(t)
        \/ alloc_zeroed_update(t)
        \/ \E p \in Addr : call_dealloc(t, p)
        \/ dealloc_query(t)
        \/ dealloc_update(t)
        \/ dealloc_call(t)
        \/ std_alloc_reenter(t)
        \/ stack_overflow(t)
        \/ program_resume(t)

SpecAllocDealloc == Init /\ [][NextAllocDealloc]_vars

\* C15: when only alloc, alloc_zeroed and dealloc are used, the counter never
\* exceeds the sum of the usable sizes of the blocks live in the system
\* allocator, in every state, operations in flight included.
C15_NeverOverReports == size <= HeapBytes(usable)

\* an alloc has its block but has not added it yet, while a dealloc has
\* subtracted its block but not freed it yet: the counter is strictly lower
C15_Witness ==
    /\ size < HeapBytes(usable)
    /\ \E t \in Threads : th[t].pc \in {"alloc_update", "alloc_zeroed_update"}
    /\ \E u \in Threads : th[u].pc = "dealloc_call" /\ usable[th[u].ptr] > 0

Quiescent == \A t \in Threads : ~InFlight(t)

\* C16: drift is the sum, modulo 2^w, of u_old - u_new over the reallocs that
\* returned the same pointer.  No later operation corrects it: whenever no
\* operation is in flight the counter is off from the live usable bytes by
\* exactly drift, so once all blocks are freed the counter equals
\* (start + u_old - u_new) mod 2^w instead of start, wrapping around when the
\* block grew in place.
C16_PermanentDrift ==
    Quiescent =>
        /\ size = (start + HeapBytes(usable) + drift) % WordMod
        /\ Live(usable) = {} => size = (start + drift) % WordMod

\* a block of usable size 1 grew in place to 2 and was freed: the counter
\* wrapped to 2^w - 1
C16_Witness ==
    /\ Quiescent
    /\ Live(usable) = {}
    /\ start = 0
    /\ drift = WordMod - 1
    /\ size = WordMod - 1
    /\ \E t \in Threads : th[t].op = "dealloc" /\ th[t].size = 2

====
